---- MODULE Spec2Model ----
(***************************************************************************)
(* A model of the auctions-db data-access layer (package auctions_db).     *)
(*                                                                         *)
(* The repository holds two revisions of the one source file: src/main.go  *)
(* and the earlier src/unnamed/part_000.  The variable rev says which of   *)
(* them is built; where they differ the actions branch on it.              *)
(*                                                                         *)
(* The database is PostgreSQL reached through go-pg: a catalog of table    *)
(* names, the stored rows of each table, and per caller an open            *)
(* transaction.  DDL is transactional: a rename or truncate made inside a  *)
(* transaction is invisible to other sessions until COMMIT and is undone   *)
(* by ROLLBACK; a statement that fails inside a transaction aborts it.     *)
(*                                                                         *)
(* The operations on different table families (the three live/shadow       *)
(* pairs, auctions, items) touch disjoint tables, so a behaviour follows   *)
(* the calls made on one family, chosen in Init.                           *)
(***************************************************************************)
EXTENDS Integers, Sequences, FiniteSets, TLC

\* Bounds of the model.
MaxLen == 3         \* longest input slice handed to a call
MaxBatch == 2       \* largest Database.BatchSize
MaxCalls == 2       \* calls made in one behaviour

Keys == {"k1", "k2", "k3"}      \* primary-key values (the pk columns as one)
Vals == {"v1", "v2"}            \* values of the non-key columns (as one)
Callers == {1, 2}               \* goroutines calling into the package
SeqCallers == {1}               \* the caller of the one-call-at-a-time runs
Revisions == {"main", "part_000"}
NoTable == "absent"             \* a name that stands for no table

VARIABLES
    rev,        \* the revision of the source file that is built
    family,     \* the table family this behaviour's calls work on
    BatchSize,  \* Database.BatchSize
    catalog,    \* committed catalog: the names of the tables that exist
    rows,       \* committed contents: table name -> set of rows
    tx,         \* per caller: its transaction (*pg.Tx)
    calls,      \* calls begun so far
    pc,         \* per caller: where its call stands
    data,       \* per caller: the slice the call was given
    i,          \* per caller: the loop variable i of the chunking loop
    issued,     \* per caller: the batches handed to Insert(), in order
    result,     \* per caller: "none", "ok" (nil), "err" or "panic"
    failed,     \* per caller: the first database step of the call that failed
    cause,      \* per caller: "fault" (external) or "db" (the statement is refused)
    after,      \* per caller: database steps issued after the first failure
    pre,        \* per caller: the live and shadow rows when the call began
    retry,      \* per caller: the call repeats one that failed while staging
    seen,       \* what the last concurrent read of the live table returned
    orderBy,    \* GetCurrentAuctions: the caller's orderBy
    direction,  \* GetCurrentAuctions: the caller's direction
    query       \* GetCurrentAuctions: the ORDER BY clause of the query text

dbVars == <<catalog, rows, tx>>
callVars == <<calls, pc, data, i, issued, result, failed, cause, after, pre, retry>>
queryVars == <<orderBy, direction, query>>
confVars == <<rev, family, BatchSize>>
vars == <<rev, family, BatchSize, catalog, rows, tx, calls, pc, data, i, issued,
          result, failed, cause, after, pre, retry, seen, orderBy, direction, query>>

----------------------------------------------------------------------------
\* Tables and records.

ReplaceTables == {"current_auctions", "price_distributions", "price_averages"}

\* The routines each revision has.
Families(r) ==
    IF r = "main"
    THEN ReplaceTables \cup {"auctions", "items"}
    ELSE {"current_auctions", "price_distributions", "auctions", "items"}

\* The shadow table's name in the swap's SQL text.
TempName(t) == t \o "_temp"

\* Mutant: the shadow struct carries the live table's tableName tag.
ShadowStructTableLive(t) == t

\* The tableName tag of the shadow struct of live table t.
ShadowStructTable(t) == t \o "_temp"

\* The name the swap parks the old live table under.
Temp2Name(t) == t \o "_temp2"

Names(t) == IF t \in ReplaceTables THEN {t, TempName(t), Temp2Name(t)} ELSE {t}

\* tableName of the struct a routine on family t takes as input.
InputTable(t) == IF t = "current_auctions" THEN "auctions" ELSE t

SeqsUpTo(S, n) == UNION {[1..m -> S] : m \in 0..n}

\* The key columns of the records of an input slice.  A key that repeats in
\* a slice is refused by the primary key exactly as a key that is already
\* stored, so the slices drawn hold each key once.
KeyLists ==
    {ks \in SeqsUpTo(Keys, MaxLen) :
        \A a, b \in 1..Len(ks) : a # b => ks[a] # ks[b]}

\* The non-key columns that go with them.  Only the auctions and items
\* tables have theirs read back, so only they range over Vals.
ValLists(t, n) == IF t \in ReplaceTables THEN {[j \in 1..n |-> "v1"]} ELSE [1..n -> Vals]

\* The structs handed to a call on family t.
InputRecords(t) ==
    [tableName : {InputTable(t)}, key : Keys,
     val : IF t \in ReplaceTables THEN {"v1"} ELSE Vals]

DatasetsOf ==
    [t \in ReplaceTables \cup {"auctions", "items"} |->
        UNION {{[j \in 1..Len(ks) |-> [tableName |-> InputTable(t), key |-> ks[j], val |-> vs[j]]] :
                  vs \in ValLists(t, Len(ks))} : ks \in KeyLists}]

\* The slices a call on family t may be given.
Datasets(t) == DatasetsOf[t]

\* The copy loop at the head of each replace routine: field by field into
\* the shadow struct, whose tableName is the shadow table.
ToTemp(t, v) == [tableName |-> ShadowStructTable(t), key |-> v.key, val |-> v.val]

TempRecords(t, d) == [j \in 1..Len(d) |-> ToTemp(t, d[j])]

\* The row a struct is stored as: its columns.
Row(v) == [key |-> v.key, val |-> v.val]

StoredRows(batch) == {Row(batch[j]) : j \in 1..Len(batch)}

KeysOf(S) == {r.key : r \in S}

\* Go's s[lo:hi].
Slice(s, lo, hi) == SubSeq(s, lo + 1, hi)

\* Mutant: end := i + BatchSize - 1, one record short of the chunk.
ChunkEndShort(idx, len, b) == IF idx + b > len THEN len ELSE idx + b - 1

\* end := i + BatchSize; if end > len { end = len }
ChunkEnd(idx, len, b) == IF idx + b > len THEN len ELSE idx + b

RECURSIVE Flatten(_)
Flatten(ss) == IF ss = <<>> THEN <<>> ELSE Head(ss) \o Flatten(Tail(ss))

Ceil(n, b) == (n + b - 1) \div b

----------------------------------------------------------------------------
\* The database.

NoTx == [state |-> "none", cat |-> [n \in {} |-> NoTable], locks |-> {}, trunc |-> {}]

InitCatalog(t) == IF t \in ReplaceTables THEN {t, TempName(t)} ELSE {t}

NoRead == [st |-> "none", rows |-> {}]

\* Another session's transaction holds an ACCESS EXCLUSIVE lock on the
\* table committed under name n.
Locked(n, c) == \E d \in Callers \ {c} : n \in tx[d].locks

\* Every name stands for the table committed under it.
CommittedView == [n \in Names(family) |-> IF n \in catalog THEN n ELSE NoTable]

\* The catalog as caller c's transaction sees it, each name mapped to the
\* committed name of the table it now stands for: its own uncommitted
\* renames once it has made one, the committed catalog before that.
TxView(c) == IF tx[c].locks = {} THEN CommittedView ELSE tx[c].cat

\* A statement on table n waits while another session's transaction locks it.
Free(n, c) == n \in catalog => ~Locked(n, c)

\* The rows of the table named n, as a session outside a transaction sees it.
TableRows(n) == IF n \in catalog THEN rows[n] ELSE {}

LiveRows == TableRows(family)
ShadowRows == TableRows(TempName(family))

\* INSERT of a batch is refused when the table is missing or a key of the
\* batch repeats or is already stored (the primary key).
InsertRefused(n, batch) ==
    \/ n \notin catalog
    \/ \E a, b \in 1..Len(batch) : a # b /\ batch[a].key = batch[b].key
    \/ KeysOf(StoredRows(batch)) \cap KeysOf(TableRows(n)) # {}

----------------------------------------------------------------------------
\* Construction: NewDatabase connects to a database whose tables exist and
\* are empty; BatchSize is a public field the caller may set.

Init ==
    /\ rev \in Revisions
    /\ family \in Families(rev)
    /\ BatchSize \in 1..MaxBatch
    /\ catalog = InitCatalog(family)
    /\ rows = [n \in Names(family) |-> {}]
    /\ tx = [c \in Callers |-> NoTx]
    /\ calls = 0
    /\ pc = [c \in Callers |-> "idle"]
    /\ data = [c \in Callers |-> <<>>]
    /\ i = [c \in Callers |-> 0]
    /\ issued = [c \in Callers |-> <<>>]
    /\ result = [c \in Callers |-> "none"]
    /\ failed = [c \in Callers |-> ""]
    /\ cause = [c \in Callers |-> ""]
    /\ after = [c \in Callers |-> 0]
    /\ pre = [c \in Callers |-> [live |-> {}, temp |-> {}]]
    /\ retry = [c \in Callers |-> FALSE]
    /\ seen = NoRead
    /\ orderBy = ""
    /\ direction = ""
    /\ query = ""

----------------------------------------------------------------------------
\* Bookkeeping shared by the handlers.

\* The call that caller c now makes with slice d repeats its last one, a
\* replace that failed in the stage phase after at least one chunk was stored.
RetryOfStageFailure(c, d) ==
    /\ family \in ReplaceTables
    /\ pc[c] = "done"
    /\ failed[c] = "insert"
    /\ i[c] > 0
    /\ d = data[c]

\* A call begins with slice d.
Enter(c, d, at) ==
    /\ pc[c] \in {"idle", "done"}
    /\ calls < MaxCalls
    /\ calls' = calls + 1
    /\ pc' = [pc EXCEPT ![c] = at]
    /\ data' = [data EXCEPT ![c] = d]
    /\ i' = [i EXCEPT ![c] = 0]
    /\ issued' = [issued EXCEPT ![c] = <<>>]
    /\ result' = [result EXCEPT ![c] = "none"]
    /\ failed' = [failed EXCEPT ![c] = ""]
    /\ cause' = [cause EXCEPT ![c] = ""]
    /\ after' = [after EXCEPT ![c] = 0]
    /\ pre' = [pre EXCEPT ![c] = [live |-> LiveRows, temp |-> ShadowRows]]
    /\ retry' = [retry EXCEPT ![c] = RetryOfStageFailure(c, d)]
    /\ seen' = NoRead

\* The call returns res.
Return(c, res) ==
    /\ pc' = [pc EXCEPT ![c] = "done"]
    /\ result' = [result EXCEPT ![c] = res]

\* A database step of the call failed; the first failure is remembered.
Failure(c, step, why) ==
    /\ failed' = [failed EXCEPT ![c] = IF @ = "" THEN step ELSE @]
    /\ cause' = [cause EXCEPT ![c] = IF failed[c] = "" THEN why ELSE @]

\* A database step is issued; it counts when an earlier step had failed.
Issue(c) == after' = [after EXCEPT ![c] = IF failed[c] = "" THEN @ ELSE @ + 1]

----------------------------------------------------------------------------
\* The chunking loop: for i := 0; i < len(recs); i += BatchSize { ... }

\* Mutant: the error of Insert() is dropped and the loop goes on.
InsertChunkKeepGoing(c, recs) ==
    /\ i[c] < Len(recs)
    /\ LET end == IF i[c] + BatchSize > Len(recs) THEN Len(recs) ELSE i[c] + BatchSize
           batch == SubSeq(recs, i[c] + 1, end)
           n == recs[1].tableName
       IN  /\ issued' = [issued EXCEPT ![c] = Append(@, batch)]
           /\ Issue(c)
           /\ i' = [i EXCEPT ![c] = @ + BatchSize]
           /\ \E fault \in BOOLEAN :
                IF fault \/ InsertRefused(n, batch)
                THEN /\ Failure(c, "insert", IF InsertRefused(n, batch) THEN "db" ELSE "fault")
                     /\ UNCHANGED rows
                ELSE /\ rows' = [rows EXCEPT ![n] = @ \cup StoredRows(batch)]
                     /\ UNCHANGED <<failed, cause>>
    /\ UNCHANGED <<pc, result, catalog, tx, data, calls, retry, pre, seen, confVars, queryVars>>

\* database.db.Model(&batch).Insert() of one chunk, outside any transaction,
\* and the `if err != nil { return err }` after it.
InsertChunk(c, recs) ==
    /\ i[c] < Len(recs)
    /\ LET end == ChunkEnd(i[c], Len(recs), BatchSize)
           batch == Slice(recs, i[c], end)
           n == recs[1].tableName
       IN  /\ Free(n, c)
           /\ issued' = [issued EXCEPT ![c] = Append(@, batch)]
           /\ Issue(c)
           /\ \E fault \in BOOLEAN :
                IF fault \/ InsertRefused(n, batch)
                THEN /\ Failure(c, "insert", IF InsertRefused(n, batch) THEN "db" ELSE "fault")
                     /\ Return(c, "err")
                     /\ UNCHANGED <<rows, i>>
                ELSE /\ rows' = [rows EXCEPT ![n] = @ \cup StoredRows(batch)]
                     /\ i' = [i EXCEPT ![c] = @ + BatchSize]
                     /\ UNCHANGED <<pc, result, failed, cause>>
    /\ UNCHANGED <<catalog, tx, data, calls, retry, pre, seen, confVars, queryVars>>

----------------------------------------------------------------------------
\* InsertAuctions.

InsertAuctions(c) ==
    /\ family = "auctions"
    /\ \E d \in Datasets(family) : Enter(c, d, "insert")
    /\ UNCHANGED <<dbVars, confVars, queryVars>>

\* Mutant: the loop runs inside one transaction, so a failed chunk undoes
\* the chunks stored before it.
InsertAuctionsChunkAllOrNothing(c) ==
    /\ pc[c] = "insert"
    /\ i[c] < Len(data[c])
    /\ LET batch == Slice(data[c], i[c], ChunkEnd(i[c], Len(data[c]), BatchSize))
       IN  /\ issued' = [issued EXCEPT ![c] = Append(@, batch)]
           /\ Issue(c)
           /\ \E fault \in BOOLEAN :
                IF fault \/ InsertRefused("auctions", batch)
                THEN /\ Failure(c, "insert", IF InsertRefused("auctions", batch) THEN "db" ELSE "fault")
                     /\ Return(c, "err")
                     /\ rows' = [rows EXCEPT !["auctions"] = pre[c].live]
                     /\ UNCHANGED i
                ELSE /\ rows' = [rows EXCEPT !["auctions"] = @ \cup StoredRows(batch)]
                     /\ i' = [i EXCEPT ![c] = @ + BatchSize]
                     /\ UNCHANGED <<pc, result, failed, cause>>
    /\ UNCHANGED <<catalog, tx, data, calls, retry, pre, seen, confVars, queryVars>>

InsertAuctionsChunk(c) ==
    /\ pc[c] = "insert"
    /\ InsertChunk(c, data[c])

\* The loop ends; return nil.
InsertAuctionsReturn(c) ==
    /\ pc[c] = "insert"
    /\ i[c] >= Len(data[c])
    /\ Return(c, "ok")
    /\ UNCHANGED <<dbVars, data, calls, retry, i, issued, failed, cause, after, pre, seen,
                   confVars, queryVars>>

----------------------------------------------------------------------------
\* The transaction of the swap phase.

RenameOk(view, from, to) == view[from] # NoTable /\ view[to] = NoTable

\* Mutant: database.db.Exec in place of tx.Exec, the rename commits at once.
AutocommitRename(c, from, to) ==
    /\ catalog' = (catalog \ {from}) \cup {to}
    /\ rows' = [rows EXCEPT ![to] = rows[from], ![from] = {}]
    /\ tx' = tx

\* tx.Exec("ALTER TABLE from RENAME TO to"): the rename is made in the
\* transaction's own view of the catalog, under an ACCESS EXCLUSIVE lock.
TxRename(c, from, to) ==
    LET view == TxView(c)
    IN  /\ tx' = [tx EXCEPT ![c] =
                    [state |-> "active",
                     cat |-> [view EXCEPT ![to] = view[from], ![from] = NoTable],
                     locks |-> tx[c].locks \cup {view[from]},
                     trunc |-> tx[c].trunc]]
        /\ UNCHANGED <<catalog, rows>>

\* tx.Exec("TRUNCATE TABLE n"): the table is emptied when the transaction commits.
TxTruncate(c, n) ==
    LET view == TxView(c)
    IN  /\ tx' = [tx EXCEPT ![c] =
                    [state |-> "active",
                     cat |-> view,
                     locks |-> tx[c].locks \cup {view[n]},
                     trunc |-> tx[c].trunc \cup {view[n]}]]
        /\ UNCHANGED <<catalog, rows>>

\* Mutant: the error branch ends the transaction with its renames kept.
RollbackKeepsRenames(c) ==
    /\ catalog' = {n \in Names(family) : TxView(c)[n] # NoTable}
    /\ rows' = [n \in Names(family) |->
                 IF TxView(c)[n] = NoTable THEN {} ELSE rows[TxView(c)[n]]]
    /\ tx' = [tx EXCEPT ![c] = NoTx]

\* tx.Rollback(): nothing the transaction did is kept.
Rollback(c) ==
    /\ tx' = [tx EXCEPT ![c] = NoTx]
    /\ UNCHANGED <<catalog, rows>>

\* tx.Commit() of a live transaction: its renames and truncates take effect at once.
DbCommit(c) ==
    /\ catalog' = {n \in Names(family) : TxView(c)[n] # NoTable}
    /\ rows' = [n \in Names(family) |->
                 IF TxView(c)[n] = NoTable \/ TxView(c)[n] \in tx[c].trunc
                 THEN {} ELSE rows[TxView(c)[n]]]
    /\ tx' = [tx EXCEPT ![c] = NoTx]

----------------------------------------------------------------------------
\* ReplaceCurrentAuctions, ReplacePriceDistributions, ReplacePriceAverages:
\* the same routine on three pairs of tables.

Replace(c, t) ==
    /\ family = t
    /\ \E d \in Datasets(t) : Enter(c, d, "stage")
    /\ UNCHANGED <<dbVars, confVars, queryVars>>

ReplaceCurrentAuctions(c) == Replace(c, "current_auctions")

ReplacePriceDistributions(c) == Replace(c, "price_distributions")

ReplacePriceAverages(c) == Replace(c, "price_averages")

\* Stage phase: one chunk of the shadow structs is inserted.
StageChunk(c) ==
    /\ pc[c] = "stage"
    /\ InsertChunk(c, TempRecords(family, data[c]))

\* tx, err := database.db.Begin(); if err != nil { tx.Rollback(); return err }
\* On an error go-pg hands back a nil *Tx: no transaction exists, and
\* tx.Rollback() dereferences the nil pointer, which panics.
Begin(c) ==
    /\ pc[c] = "stage"
    /\ i[c] >= Len(data[c])
    /\ Issue(c)
    /\ \E fault \in BOOLEAN :
         IF fault
         THEN /\ tx' = tx
              /\ Failure(c, "begin", "fault")
              /\ Return(c, "panic")
         ELSE /\ tx' = [tx EXCEPT ![c] = [NoTx EXCEPT !.state = "active"]]
              /\ pc' = [pc EXCEPT ![c] = "rename1"]
              /\ UNCHANGED <<result, failed, cause>>
    /\ UNCHANGED <<catalog, rows, data, calls, retry, i, issued, pre, seen, confVars, queryVars>>

\* One rename of the swap and the `if err != nil { tx.Rollback(); return err }`
\* after it.
SwapRename(c, at, from, to, next) ==
    /\ pc[c] = at
    /\ TxView(c)[from] # NoTable => ~Locked(TxView(c)[from], c)
    /\ Issue(c)
    /\ \E fault \in BOOLEAN :
         IF ~fault /\ RenameOk(TxView(c), from, to)
         THEN /\ TxRename(c, from, to)
              /\ pc' = [pc EXCEPT ![c] = next]
              /\ UNCHANGED <<result, failed, cause>>
         ELSE /\ Rollback(c)
              /\ Failure(c, at, IF fault THEN "fault" ELSE "db")
              /\ Return(c, "err")
    /\ UNCHANGED <<data, calls, retry, i, issued, pre, seen, confVars, queryVars>>

\* ALTER TABLE T RENAME TO T_temp2
RenameLiveToTemp2(c) ==
    SwapRename(c, "rename1", family, Temp2Name(family), "rename2")

\* ALTER TABLE T_temp RENAME TO T
RenameTempToLive(c) ==
    SwapRename(c, "rename2", TempName(family), family, "rename3")

\* ALTER TABLE T_temp2 RENAME TO T_temp
RenameTemp2ToTemp(c) ==
    SwapRename(c, "rename3", Temp2Name(family), TempName(family), "truncate")

\* TRUNCATE TABLE T_temp.  main.go rolls back and returns on an error;
\* part_000 overwrites err with that of Commit, on the by now aborted
\* transaction.
Truncate(c) ==
    /\ pc[c] = "truncate"
    /\ Issue(c)
    /\ \E fault \in BOOLEAN :
         LET ok == ~fault /\ TxView(c)[TempName(family)] # NoTable
         IN  IF ok
             THEN /\ TxTruncate(c, TempName(family))
                  /\ pc' = [pc EXCEPT ![c] = "commit"]
                  /\ UNCHANGED <<result, failed, cause>>
             ELSE /\ Failure(c, "truncate", IF fault THEN "fault" ELSE "db")
                  /\ IF rev = "main"
                     THEN /\ Rollback(c)
                          /\ Return(c, "err")
                     ELSE /\ tx' = [tx EXCEPT ![c].state = "aborted"]
                          /\ pc' = [pc EXCEPT ![c] = "commit"]
                          /\ UNCHANGED <<catalog, rows, result>>
    /\ UNCHANGED <<data, calls, retry, i, issued, pre, seen, confVars, queryVars>>

\* err = tx.Commit(); if err != nil { tx.Rollback(); return err }; return nil.
\* COMMIT of an aborted transaction rolls it back and reports no error.
Commit(c) ==
    /\ pc[c] = "commit"
    /\ Issue(c)
    /\ \E fault \in BOOLEAN :
         IF fault
         THEN /\ Rollback(c)
              /\ Failure(c, "commit", "fault")
              /\ Return(c, "err")
         ELSE /\ IF tx[c].state = "active" THEN DbCommit(c) ELSE Rollback(c)
              /\ Return(c, "ok")
              /\ UNCHANGED <<failed, cause>>
    /\ UNCHANGED <<data, calls, retry, i, issued, pre, seen, confVars, queryVars>>

----------------------------------------------------------------------------
\* A concurrent reader of the live table (GetPriceDistributions,
\* CountCurrentAuctions, ...): one SELECT on the committed state; it waits
\* while a transaction holds the table locked.

ReadLive ==
    /\ family \in ReplaceTables
    /\ \E c \in Callers : pc[c] # "idle"
    /\ Free(family, 0)
    /\ seen' = IF family \in catalog
               THEN [st |-> "rows", rows |-> rows[family]]
               ELSE [st |-> "missing", rows |-> {}]
    /\ UNCHANGED <<dbVars, callVars, confVars, queryVars>>

----------------------------------------------------------------------------
\* Items.

\* Mutant: ON CONFLICT (id) DO NOTHING, the stored row is kept.
UpsertedDoNothing(table, v) ==
    IF v.key \in KeysOf(table) THEN table ELSE table \cup {Row(v)}

\* INSERT ... ON CONFLICT (id) DO UPDATE: go-pg sets every non-key column
\* from the new row when the query names no SET.
Upserted(table, v) == {r \in table : r.key # v.key} \cup {Row(v)}

\* main.go: UpsertItem is called.
UpsertItem(c) ==
    /\ rev = "main"
    /\ family = "items"
    /\ \E item \in InputRecords("items") : Enter(c, <<item>>, "upsert")
    /\ UNCHANGED <<dbVars, confVars, queryVars>>

\* database.db.Model(item).OnConflict("(id) DO UPDATE").Insert()
UpsertItemExec(c) ==
    /\ pc[c] = "upsert"
    /\ Free("items", c)
    /\ Issue(c)
    /\ issued' = [issued EXCEPT ![c] = Append(@, data[c])]
    /\ \E fault \in BOOLEAN :
         IF fault
         THEN /\ Failure(c, "insert", "fault")
              /\ Return(c, "err")
              /\ UNCHANGED rows
         ELSE /\ rows' = [rows EXCEPT !["items"] = Upserted(@, data[c][1])]
              /\ Return(c, "ok")
              /\ UNCHANGED <<failed, cause>>
    /\ UNCHANGED <<catalog, tx, data, calls, retry, i, pre, seen, confVars, queryVars>>

\* part_000: InsertItem is called.
InsertItem(c) ==
    /\ rev = "part_000"
    /\ family = "items"
    /\ \E item \in InputRecords("items") : Enter(c, <<item>>, "insertitem")
    /\ UNCHANGED <<dbVars, confVars, queryVars>>

\* database.db.Model(item).Insert()
InsertItemExec(c) ==
    /\ pc[c] = "insertitem"
    /\ Free("items", c)
    /\ Issue(c)
    /\ issued' = [issued EXCEPT ![c] = Append(@, data[c])]
    /\ \E fault \in BOOLEAN :
         IF fault \/ InsertRefused("items", data[c])
         THEN /\ Failure(c, "insert", IF InsertRefused("items", data[c]) THEN "db" ELSE "fault")
              /\ Return(c, "err")
              /\ UNCHANGED rows
         ELSE /\ rows' = [rows EXCEPT !["items"] = @ \cup StoredRows(data[c])]
              /\ Return(c, "ok")
              /\ UNCHANGED <<failed, cause>>
    /\ UNCHANGED <<catalog, tx, data, calls, retry, i, pre, seen, confVars, queryVars>>

----------------------------------------------------------------------------
\* GetCurrentAuctions: the ORDER BY clause is put together from the
\* caller's strings.

OrderByInputs ==
    {"p50", "quantity", "P50", "", "min", "item_id", "p50 ", "p50; DROP TABLE items; --"}

DirectionInputs ==
    {"desc", "asc", "DESC", "", "down", "desc ", "desc; DELETE FROM items; --"}

\* Mutant: the caller's string goes into the query text as it is.
OrderByQueryRaw(ob) == ob

\* if orderBy == "p50" { "p50" } else { "quantity" }
OrderByQuery(ob) == IF ob = "p50" THEN "p50" ELSE "quantity"

\* if direction == "desc" { "DESC" } else { "ASC" }
DirectionQuery(dir) == IF dir = "desc" THEN "DESC" ELSE "ASC"

\* fmt.Sprintf("... ORDER BY %s %s ...", orderByQuery, directionQuery)
OrderByClause(ob, dir) == "ORDER BY " \o OrderByQuery(ob) \o " " \o DirectionQuery(dir)

\* The call: the query text is built.
GetCurrentAuctions(c) ==
    /\ family = "current_auctions"
    /\ \E ob \in OrderByInputs, dir \in DirectionInputs :
         /\ orderBy' = ob
         /\ direction' = dir
         /\ query' = OrderByClause(ob, dir)
    /\ Enter(c, <<>>, "query")
    /\ UNCHANGED <<dbVars, confVars>>

\* database.db.Query(&currentAuctions, query, ...) and the return.
GetCurrentAuctionsQuery(c) ==
    /\ pc[c] = "query"
    /\ Free("current_auctions", c)
    /\ Issue(c)
    /\ \E fault \in BOOLEAN :
         IF fault
         THEN /\ Failure(c, "query", "fault")
              /\ Return(c, "err")
              /\ UNCHANGED seen
         ELSE /\ seen' = [st |-> "rows", rows |-> LiveRows]
              /\ Return(c, "ok")
              /\ UNCHANGED <<failed, cause>>
    /\ UNCHANGED <<dbVars, data, calls, retry, i, issued, pre, confVars, queryVars>>

----------------------------------------------------------------------------
\* Calls made one at a time by one caller, with a concurrent reader.

Next ==
    \/ \E c \in SeqCallers : InsertAuctions(c)
    \/ \E c \in SeqCallers : InsertAuctionsChunk(c)
    \/ \E c \in SeqCallers : InsertAuctionsReturn(c)
    \/ \E c \in SeqCallers : ReplaceCurrentAuctions(c)
    \/ \E c \in SeqCallers : ReplacePriceDistributions(c)
    \/ \E c \in SeqCallers : ReplacePriceAverages(c)
    \/ \E c \in SeqCallers : StageChunk(c)
    \/ \E c \in SeqCallers : Begin(c)
    \/ \E c \in SeqCallers : RenameLiveToTemp2(c)
    \/ \E c \in SeqCallers : RenameTempToLive(c)
    \/ \E c \in SeqCallers : RenameTemp2ToTemp(c)
    \/ \E c \in SeqCallers : Truncate(c)
    \/ \E c \in SeqCallers : Commit(c)
    \/ \E c \in SeqCallers : UpsertItem(c)
    \/ \E c \in SeqCallers : UpsertItemExec(c)
    \/ \E c \in SeqCallers : InsertItem(c)
    \/ \E c \in SeqCallers : InsertItemExec(c)
    \/ ReadLive

Spec == Init /\ [][Next]_vars

\* The read queries of GetCurrentAuctions on their own.
InitQuery == Init /\ family = "current_auctions"

NextQuery ==
    \/ \E c \in SeqCallers : GetCurrentAuctions(c)
    \/ \E c \in SeqCallers : GetCurrentAuctionsQuery(c)

SpecQuery == InitQuery /\ [][NextQuery]_vars

\* Replace calls made by two goroutines at once: their chunk inserts and
\* swap transactions interleave as the database's locks allow.
InitConc == Init /\ family \in ReplaceTables

NextConc ==
    \/ \E c \in Callers : ReplaceCurrentAuctions(c)
    \/ \E c \in Callers : ReplacePriceDistributions(c)
    \/ \E c \in Callers : ReplacePriceAverages(c)
    \/ \E c \in Callers : StageChunk(c)
    \/ \E c \in Callers : Begin(c)
    \/ \E c \in Callers : RenameLiveToTemp2(c)
    \/ \E c \in Callers : RenameTempToLive(c)
    \/ \E c \in Callers : RenameTemp2ToTemp(c)
    \/ \E c \in Callers : Truncate(c)
    \/ \E c \in Callers : Commit(c)

SpecConc == InitConc /\ [][NextConc]_vars


----------------------------------------------------------------------------
\* Properties.

\* The rows of the call's dataset, as the shadow structs store them.
Installed(c) == StoredRows(TempRecords(family, data[c]))

\* The records the chunking loop of the call walks over.
LoopRecords(c) ==
    IF family \in ReplaceTables THEN TempRecords(family, data[c]) ELSE data[c]

SwapSteps == {"rename1", "rename2", "rename3", "truncate", "commit"}

\* C1: a replace call that returns success leaves the live table holding
\* exactly the rows of its dataset, whatever earlier replace calls did.
C1_ReplaceInstallsDataset ==
    \A c \in Callers :
        (rev = "main" /\ family \in ReplaceTables /\ pc[c] = "done" /\ result[c] = "ok")
            => (family \in catalog /\ LiveRows = Installed(c))

\* C2: a read of the live table made while a replace call runs, or after
\* it, returns the rows the table held when the call began or the rows of
\* the dataset: no other set of rows, no missing table, and no empty table
\* when neither of the two is empty.
C2_ReaderSeesOldOrNew ==
    \A c \in Callers :
        (rev = "main" /\ family \in ReplaceTables /\ pc[c] # "idle" /\ seen.st # "none")
            => /\ seen.st = "rows"
               /\ seen.rows \in {pre[c].live, Installed(c)}

\* C3: while a replace call is in its stage phase the live table holds what
\* it held when the call began, and a read of it returns just that.
C3_StagingLeavesLiveUntouched ==
    \A c \in Callers :
        (family \in ReplaceTables /\ pc[c] = "stage")
            => /\ family \in catalog
               /\ rows[family] = pre[c].live
               /\ seen.st # "none" => seen = [st |-> "rows", rows |-> pre[c].live]

\* C3 witness: a chunk has been staged, more are to come, and a reader has
\* read the non-empty live table.
C3_Witness ==
    /\ family \in ReplaceTables
    /\ pc[1] = "stage"
    /\ 0 < i[1] /\ i[1] < Len(data[1])
    /\ rows[TempName(family)] # pre[1].temp
    /\ pre[1].live # {}
    /\ seen.st = "rows"

\* C4: when a step of the swap transaction fails, the live table holds its
\* pre-swap rows, the shadow table holds what it held plus the staged rows,
\* both exist, no T_temp2 exists, and the transaction is over.
C4_FailedSwapRollsBack ==
    \A c \in Callers :
        (family \in ReplaceTables /\ pc[c] = "done" /\ failed[c] \in SwapSteps)
            => /\ catalog = {family, TempName(family)}
               /\ rows[family] = pre[c].live
               /\ rows[TempName(family)] = pre[c].temp \cup Installed(c)
               /\ rows[Temp2Name(family)] = {}
               /\ tx[c].state = "none"

\* C4 witness: the commit of a swap that would have replaced a non-empty
\* live table by a non-empty dataset has failed.
C4_Witness ==
    /\ family \in ReplaceTables
    /\ pc[1] = "done"
    /\ failed[1] = "commit"
    /\ data[1] # <<>>
    /\ pre[1].live # {}
    /\ pre[1].live # Installed(1)

\* C5: when the insert of chunk k fails in the stage phase, the call returns
\* the error, no later chunk is issued and no transaction is begun; the live
\* table is as it was and the shadow table holds what it held plus the rows
\* of chunks 1..k-1.
C5_StageFailureStopsTheCall ==
    \A c \in Callers :
        (family \in ReplaceTables /\ pc[c] = "done" /\ failed[c] = "insert")
            => /\ result[c] = "err"
               /\ after[c] = 0
               /\ tx[c].state = "none"
               /\ Len(issued[c]) = (i[c] \div BatchSize) + 1
               /\ catalog = {family, TempName(family)}
               /\ rows[family] = pre[c].live
               /\ rows[TempName(family)] =
                     pre[c].temp \cup StoredRows(SubSeq(LoopRecords(c), 1, i[c]))

\* C5 witness: a later chunk than the first is refused by an external fault,
\* with rows of an earlier call still in the shadow table.
C5_Witness ==
    /\ family \in ReplaceTables
    /\ pc[1] = "done"
    /\ failed[1] = "insert"
    /\ cause[1] = "fault"
    /\ i[1] > 0
    /\ pre[1].temp # {}

\* C6: a failed database step of a replace call makes the call return an
\* error: not success, not a crash, and no further step is issued.
C6_FailuresAreReturned ==
    \A c \in Callers :
        (family \in ReplaceTables /\ pc[c] = "done" /\ failed[c] # "")
            => (result[c] = "err" /\ after[c] = 0)

\* C7: InsertAuctions overwrites on conflict: unless the database faults,
\* the call succeeds and every record of the batch is stored, in place of
\* the row that had its key.
C7_InsertAuctionsOverwrites ==
    \A c \in Callers :
        (family = "auctions" /\ pc[c] = "done" /\ cause[c] # "fault")
            => /\ result[c] = "ok"
               /\ rows["auctions"] =
                     {r \in pre[c].live : r.key \notin KeysOf(StoredRows(data[c]))}
                        \cup StoredRows(data[c])

\* The item the call wrote.
Written(c) == data[c][1]

\* The items table holds one row for the written id, with the written
\* values, and the rows of the other ids as they were.
OverwrittenBy(c) ==
    /\ \E r \in rows["items"] : r.key = Written(c).key
    /\ \A r \in rows["items"] : r.key = Written(c).key => r.val = Written(c).val
    /\ {r \in rows["items"] : r.key # Written(c).key}
          = {r \in pre[c].live : r.key # Written(c).key}

LoopFinished(c) ==
    /\ family \in ReplaceTables \cup {"auctions"}
    /\ pc[c] # "idle"
    /\ failed[c] # "insert"
    /\ i[c] >= Len(data[c])

\* C9: a chunking loop that ends with no failure has issued ceil(N/B)
\* inserts, each of 1..B records, which laid end to end are the input
\* records in input order; the table they went to has gained just them.
C9_ChunksCoverInput ==
    \A c \in Callers :
        LoopFinished(c)
            => /\ Len(issued[c]) = Ceil(Len(data[c]), BatchSize)
               /\ \A k \in 1..Len(issued[c]) :
                     Len(issued[c][k]) >= 1 /\ Len(issued[c][k]) <= BatchSize
               /\ Flatten(issued[c]) = LoopRecords(c)
               /\ family = "auctions" =>
                     rows["auctions"] = pre[c].live \cup StoredRows(data[c])
               /\ (family \in ReplaceTables /\ pc[c] = "stage") =>
                     rows[TempName(family)] = pre[c].temp \cup Installed(c)

\* C9 witness: three records went out in batches of two, a full chunk and
\* a partial one.
C9_Witness ==
    /\ LoopFinished(1)
    /\ Len(data[1]) = 3
    /\ BatchSize = 2
    /\ Len(issued[1]) = 2

QuantityClauses == {"ORDER BY quantity ASC", "ORDER BY quantity DESC"}
P50Clauses == {"ORDER BY p50 ASC", "ORDER BY p50 DESC"}
DescClauses == {"ORDER BY quantity DESC", "ORDER BY p50 DESC"}

\* C10: the ORDER BY clause of GetCurrentAuctions is one of four texts:
\* column p50 for orderBy "p50" and quantity for anything else, DESC for
\* direction "desc" and ASC for anything else; the call fails only when the
\* database does.
C10_OrderByAllowList ==
    \A c \in Callers :
        pc[c] \in {"query", "done"}
            => /\ query \in QuantityClauses \cup P50Clauses
               /\ query \in P50Clauses <=> orderBy = "p50"
               /\ query \in DescClauses <=> direction = "desc"
               /\ (pc[c] = "done" /\ result[c] = "err") => cause[c] = "fault"

\* C10 witness: a query has run with an orderBy and a direction that are
\* neither of the recognised words.
C10_Witness ==
    /\ pc[1] = "done"
    /\ result[1] = "ok"
    /\ orderBy \notin {"p50", "quantity"}
    /\ direction \notin {"asc", "desc"}
    /\ query = "ORDER BY quantity ASC"

\* C11: after a replace call that returned success the shadow table exists
\* and is empty.
C11_ShadowEmptyAfterSuccess ==
    \A c \in Callers :
        (family \in ReplaceTables /\ pc[c] = "done" /\ result[c] = "ok")
            => (TempName(family) \in catalog /\ ShadowRows = {})

\* The records of the chunks the loop of the call has got past.
ChunksDone(c) ==
    SubSeq(data[c], 1, IF i[c] > Len(data[c]) THEN Len(data[c]) ELSE i[c])

\* C12: InsertAuctions stores its chunks one after the other, each at once
\* and for good: while it runs the auctions table holds what it held plus
\* the chunks done so far, and when the insert of chunk k fails the call
\* returns the error, issues nothing more, and the rows of chunks 1..k-1
\* are still stored.
C12_InsertAuctionsKeepsEarlierChunks ==
    \A c \in Callers :
        (family = "auctions" /\ pc[c] \in {"insert", "done"})
            => /\ tx[c].state = "none"
               /\ rows["auctions"] = pre[c].live \cup StoredRows(ChunksDone(c))
               /\ (pc[c] = "done" /\ failed[c] = "insert")
                     => /\ result[c] = "err"
                        /\ after[c] = 0
                        /\ Len(issued[c]) = (i[c] \div BatchSize) + 1
                        /\ Flatten(issued[c]) =
                              SubSeq(data[c], 1, ChunkEnd(i[c], Len(data[c]), BatchSize))

\* C12 witness: the second chunk of a call has failed, the first one is
\* stored and a third was still to come.
C12_Witness ==
    /\ family = "auctions"
    /\ pc[1] = "done"
    /\ failed[1] = "insert"
    /\ BatchSize = 1
    /\ i[1] = 1
    /\ Len(data[1]) = 3
    /\ StoredRows(SubSeq(data[1], 1, 1)) \cap pre[1].live = {}

\* The names caller c's open transaction sees a table under.
TxNames(c) == {n \in Names(family) : TxView(c)[n] # NoTable}

\* C13: in every committed state the live and the shadow table exist and no
\* T_temp2 does; T_temp2 exists only in the view of a swap transaction that
\* is still open.
C13_CommittedCatalogIsLiveAndShadow ==
    family \in ReplaceTables
        => /\ catalog = {family, TempName(family)}
           /\ \A c \in Callers :
                 Temp2Name(family) \in TxNames(c)
                    => (tx[c].state = "active" /\ pc[c] \in {"rename2", "rename3"})

\* C13 witness: a swap that had parked the live table under T_temp2 has
\* failed and the call has returned.
C13_Witness ==
    /\ family \in ReplaceTables
    /\ pc[1] = "done"
    /\ failed[1] \in {"rename2", "rename3"}
    /\ Installed(1) # {}
    /\ pre[1].live # {}

\* C14: a replace call that repeats, with the same dataset, a call that
\* failed in the stage phase at chunk 2 or later returns success and leaves
\* the live table holding exactly the dataset, unless the database faults.
C14_RetryAfterStageFailureSucceeds ==
    \A c \in Callers :
        (retry[c] /\ pc[c] = "done" /\ cause[c] # "fault")
            => (result[c] = "ok" /\ LiveRows = Installed(c))

\* Both callers have made a replace call on the empty tables, so the two
\* calls ran at the same time, and both have returned.
BothReturned ==
    /\ family \in ReplaceTables
    /\ \A c \in Callers : pc[c] = "done" /\ pre[c] = [live |-> {}, temp |-> {}]

\* The commit of caller c's swap is made and the call returns success.
Commits(c) == pc[c] = "commit" /\ pc'[c] = "done" /\ result'[c] = "ok"

\* C15: once two concurrent replace calls have both returned, one of them
\* with success, the live table holds exactly the dataset of one of them;
\* and at the commit of a successful call the live table holds its dataset.
C15_ConcurrentReplacesInstallOne ==
    /\ [](BothReturned /\ (\E c \in Callers : result[c] = "ok")
            => LiveRows \in {Installed(c) : c \in Callers})
    /\ [][\A c \in Callers :
            (rev = "main" /\ pre[c].temp = {} /\ Commits(c)) => LiveRows' = Installed(c)]_vars

====
